---- MODULE Spec2Model ----
(***************************************************************************)
(* Model of the chunked downloader: the chunk store (storage.ts), the      *)
(* per-resource DownloadTask, the DownloaderQueue scheduler and the        *)
(* DownloadManager facade.                                                 *)
(*                                                                         *)
(* JavaScript runs one callback at a time, so every action below is one    *)
(* run-to-completion step: a public call, or the continuation of an await  *)
(* (store operation, HTTP response, backoff timer) up to the next await.    *)
(* A pending continuation is a record in thr[t]; the store operation an     *)
(* await waits for takes effect when its continuation is resumed, and       *)
(* operations on the same object store resume in the order they were       *)
(* issued (IndexedDB runs overlapping transactions in creation order).     *)
(* The url of a task is its identity t; a blob is the byte interval         *)
(* [off, off + size) of the resource it was cut from.                      *)
(***************************************************************************)
EXTENDS Integers, Sequences, FiniteSets, TLC

\* ---------------------------------------------------------------- bounds
NumTasks == 3
MaxOps == 3
MaxFails == 1
MaxIndex == 1
MaxUrls == 2
MaxRetryFails == 5
MaxTotal == 2147483000

\* ------------------------------------------------------ program constants
DEFAULT_CHUNK_SIZE == 1024 * 1024 * 10
MAX_CHUNK_SIZE == 1024 * 1024 * 100
TARGET_CHUNK_COUNT == 50
maxRetries == 3
retryDelay == 1000
DefaultConcurrency == 2

Tasks == 1..NumTasks
\* Sizes of the served resources: one short chunk, a whole number of chunks,
\* and a number of chunks with a short last one.
Sizes == {7, 2 * DEFAULT_CHUNK_SIZE, 2 * DEFAULT_CHUNK_SIZE + 5}
\* DownloadManager.createJob: the jobs and the tasks each one owns.
Jobs == {1, 2}
JobTasks(j) == IF j = 1 THEN <<1, 2>> ELSE <<3>>

VARIABLES
  task,      \* task[t]: the fields of DownloadTask t
  thr,       \* thr[t]: the pending continuations of t, in the order they began to wait
  meta,      \* METADATA_STORE: meta[t] is the record of url t
  chunks,    \* CHUNK_STORE: chunks[t] is the set of chunk records of url t
  sched,     \* the DownloaderQueue fields
  lis,       \* lis[t]: the listener sets the queue has attached to t
  cmap,      \* taskCleanupMap: cmap[t] iff the map holds a cleanup closure for t
  online,    \* isOnline()
  size,      \* size[t]: the length of the resource the server holds for url t
  budget,    \* what the environment may still do: public calls, failing responses
  art,       \* art[t]: the payload of the last `complete` event of t
  restarted, \* restarted[t]: start() was called on t after its last cancel()
  calls,     \* calls[t]: how often start() and cancel() have been called on t
  req,       \* req[t]: the manager call t is under: paused by pauseJob or pauseAll
             \* ("pausedJob", "pausedAll"), then asked to resume ("resumeJob", "resumeAll")
  job,       \* job[j]: the counters of DownloadJob j and what its `complete` event saw
  obs,       \* obs[t]: what an observer of task t has recorded about its events
  honoured,  \* honoured[t]: every answer of the server for url t so far honoured byte ranges
  storeOp    \* the last store operation applied by the store-only specification

vars == <<task, thr, meta, chunks, sched, lis, cmap, online, size, budget, art, restarted, calls,
          req, job, obs, honoured, storeOp>>

\* ------------------------------------------------------------------ data
NoBlob == [off |-> 0, size |-> 0]
NoMeta == [has |-> FALSE, totalBytes |-> 0, downloadedBytes |-> 0,
           supportsResume |-> FALSE, chunkSize |-> 0]
NoArt == [emitted |-> FALSE, blobs |-> <<>>]
\* held: the task was in the active set when the scheduler was paused, and
\* neither the scheduler nor the task has been started since.
\* kind: the kind of the last `error` event. streak: the chunk requests that
\* failed with a transport error or a status >= 500 since the last one that
\* was answered, failStart the first byte of the last of them.
\* loaded: the `loaded` of the last `progress` event. first: which came first,
\* a `stateChange` into downloading ("dl") or a `progress` event.
\* total: the `total` of the last `progress` event.
\* storeFailures: how many of the task's store operations have failed.
\* done: the task has emitted `complete` and no public call has been made on
\* it since. idleWake: a backoff delay of the task has ended, since the last
\* public call, while the task was not downloading.
\* errStatus: the status carried by the last HttpError that onload passed to
\* handleError.
\* netLost: the task has emitted `networkLost` since the last public call.
\* late: a `progress`, `stateChange` or `error` event was emitted while done.
NoObs == [held |-> FALSE, kind |-> "none", streak |-> 0, failStart |-> 0,
          loaded |-> 0, total |-> 0, first |-> "none", storeFailures |-> 0,
          done |-> FALSE, late |-> FALSE, idleWake |-> FALSE, netLost |-> FALSE,
          errStatus |-> 0]
\* DownloadJob: its counters, its running totals and its taskProgress map;
\* emitted, times and seen record the job's `complete` events and the states its
\* tasks were in at the last of them.
NoProgress == [loaded |-> 0, total |-> 0]
NewJob == [completed |-> 0, errors |-> 0, emitted |-> FALSE, times |-> 0, seen |-> {},
           jobTotalLoaded |-> 0, jobTotalSize |-> 0,
           taskProgress |-> [t \in 1..NumTasks |-> NoProgress]]
NoStoreOp == [op |-> "none", url |-> 0, index |-> 0, blob |-> NoBlob, existed |-> FALSE]

\* A pending continuation. pc names the await it is suspended at, st the thing
\* it waits for ("M" metadata store, "C" chunk store, "N" network or timer);
\* startByte, endByte and ranged are the closure of createXHR; cur says that
\* this.xhr is this continuation's request; index, blob and rec are the
\* arguments of the store call it waits for; got is the e.loaded of the
\* request's last progress event.
Thread(pc, st) ==
  [pc |-> pc, st |-> st, startByte |-> 0, endByte |-> 0, ranged |-> FALSE,
   cur |-> FALSE, index |-> 0, blob |-> NoBlob, status |-> 0, rec |-> NoMeta,
   fin |-> FALSE, got |-> 0, delay |-> 0]

NewTask == [state |-> "idle", downloadedBytes |-> 0, totalBytes |-> 0,
            supportsResume |-> FALSE, chunkIndex |-> 0,
            chunkSize |-> DEFAULT_CHUNK_SIZE, retryCount |-> 0]

Min(a, b) == IF a < b THEN a ELSE b
Max(a, b) == IF a > b THEN a ELSE b
CeilDiv(a, b) == (a + b - 1) \div b
RECURSIVE Pow2(_)
Pow2(n) == IF n <= 0 THEN 1 ELSE 2 * Pow2(n - 1)

RemoveAt(s, i) == SubSeq(s, 1, i - 1) \o SubSeq(s, i + 1, Len(s))
Includes(s, x) == \E i \in DOMAIN s : s[i] = x
IndexOf(s, x) == IF Includes(s, x) THEN CHOOSE i \in DOMAIN s : s[i] = x /\ \A j \in 1..(i - 1) : s[j] # x ELSE 0

\* The synchronous code of a step works on the record of everything it can
\* change; Commit makes the record the next state.
World == [task |-> task, thr |-> thr, sched |-> sched, lis |-> lis, cmap |-> cmap,
          art |-> art, restarted |-> restarted, calls |-> calls, req |-> req, obs |-> obs,
          job |-> job]

Commit(w) ==
  /\ task' = w.task
  /\ thr' = w.thr
  /\ sched' = w.sched
  /\ lis' = w.lis
  /\ cmap' = w.cmap
  /\ art' = w.art
  /\ restarted' = w.restarted
  /\ calls' = w.calls
  /\ req' = w.req
  /\ obs' = w.obs
  /\ job' = w.job

\* --------------------------------------------------------- chunk store
\* DownloaderDB.saveChunk: add the record unless (url, index) is present.
saveChunk_Overwrite(store, url, index, blob) ==
  [store EXCEPT ![url] = {c \in @ : c.index # index} \cup {[index |-> index, blob |-> blob]}]

saveChunk(store, url, index, blob) ==
  IF \E c \in store[url] : c.index = index
    THEN store
    ELSE [store EXCEPT ![url] = @ \cup {[index |-> index, blob |-> blob]}]

\* DownloaderDB.clearChunks: delete every record of the url.
clearChunks(store, url) == [store EXCEPT ![url] = {}]

\* DownloaderDB.getChunks: the records of the url sorted by index.
RECURSIVE SortByIndex(_)
SortByIndex(S) ==
  IF S = {} THEN <<>>
  ELSE LET lo == CHOOSE c \in S : \A d \in S : c.index < d.index \/ (c.index = d.index /\ c.blob.off <= d.blob.off)
                                                \/ (c.index = d.index /\ c.blob.off = d.blob.off /\ c.blob.size <= d.blob.size)
       IN <<lo>> \o SortByIndex(S \ {lo})

getChunks(store, url) == SortByIndex(store[url])

saveMetadata(store, url, rec) == [store EXCEPT ![url] = rec]
clearMetadata(store, url) == [store EXCEPT ![url] = NoMeta]
getMetadata(store, url) == store[url]

\* ------------------------------------------------------------ task helpers
\* changeState; a task that reaches `downloading` has been resumed, which
\* settles whatever pause or resume request was recorded for it.
changeState(w, t, s) ==
  [w EXCEPT !.task[t].state = s,
            !.req[t] = IF s = "downloading" THEN "none" ELSE @,
            !.obs[t].first = IF s = "downloading" /\ @ = "none" THEN "dl" ELSE @,
            !.obs[t].late = @ \/ w.obs[t].done]

\* this.xhr = null
xhrNull(w, t) == [w EXCEPT !.thr[t] = [i \in DOMAIN @ |-> [@[i] EXCEPT !.cur = FALSE]]]

spawn(w, t, th) == [w EXCEPT !.thr[t] = Append(@, th)]

\* DownloadTask.start up to its first await: the guard and the store lookup.
start_Reset(w, t) ==
  LET w1 == [w EXCEPT !.calls[t].start = @ + 1]
  IN IF w.task[t].state \in {"downloading", "fetching_metadata"}
       THEN w1
       ELSE [spawn(w1, t, Thread("start_meta", "M")) EXCEPT !.restarted[t] = TRUE,
                                                            !.task[t].retryCount = 0]

start(w, t) ==
  LET w1 == [w EXCEPT !.calls[t].start = @ + 1]
  IN IF w.task[t].state \in {"downloading", "fetching_metadata"}
       THEN w1
       ELSE [spawn(w1, t, Thread("start_meta", "M")) EXCEPT !.restarted[t] = TRUE]

\* ------------------------------------------------------- DownloaderQueue
\* cleanupTask: run the cleanup closure the map holds for the task, if any. The
\* closure detaches the listener set it was made for (the last one attached)
\* and deletes the map entry.
cleanupTask(w, t) ==
  IF w.cmap[t]
    THEN [w EXCEPT !.lis[t] = @ - 1, !.cmap[t] = FALSE]
    ELSE w

\* attachTaskListeners: one more listener set on complete/error/cancel/pause;
\* the map entry is overwritten with this set's cleanup closure.
attachTaskListeners(w, t) == [w EXCEPT !.lis[t] = @ + 1, !.cmap[t] = TRUE]

\* The condition of the while loop of run().
runGuard_NoBound(w) ==
  /\ w.sched.running
  /\ Len(w.sched.queue) > 0

runGuard(w) ==
  /\ w.sched.running
  /\ Len(w.sched.active) < w.sched.concurrency
  /\ Len(w.sched.queue) > 0

\* The while loop of run().
RECURSIVE runLoop(_)
runLoop(w) ==
  IF ~runGuard(w) THEN w
  ELSE LET t == Head(w.sched.queue)
           w1 == [w EXCEPT !.sched.queue = Tail(@)]
       IN IF w1.task[t].state \in {"canceled", "completed", "error", "paused"}
            THEN runLoop(w1)
            ELSE runLoop(start(attachTaskListeners(
                    [w1 EXCEPT !.sched.active = Append(@, t)], t), t))

\* run(): the loop, then the finally block. run() awaits nothing, so it runs
\* to its end within the step that called it.
run(w) ==
  IF w.sched.isProcessing THEN w
  ELSE LET w1 == runLoop([w EXCEPT !.sched.isProcessing = TRUE])
           w2 == [w1 EXCEPT !.sched.isProcessing = FALSE]
       IN IF w2.sched.pendingRun
            THEN [w2 EXCEPT !.sched.pendingRun = FALSE, !.sched.timers = @ + 1]
            ELSE IF w2.sched.running /\ Len(w2.sched.queue) = 0 /\ Len(w2.sched.active) = 0
                   THEN [w2 EXCEPT !.sched.running = FALSE]
                   ELSE w2

scheduleRun(w) ==
  IF w.sched.isProcessing
    THEN [w EXCEPT !.sched.pendingRun = TRUE]
    ELSE run(w)

\* onFinish of one listener set: drop the task from active, clean up, dispatch.
onFinish_NoDispatch(w, t) ==
  LET i == IndexOf(w.sched.active, t)
      w1 == IF i # 0 THEN [w EXCEPT !.sched.active = RemoveAt(@, i)] ELSE w
  IN cleanupTask(w1, t)

onFinish(w, t) ==
  LET i == IndexOf(w.sched.active, t)
      w1 == IF i # 0 THEN [w EXCEPT !.sched.active = RemoveAt(@, i)] ELSE w
      w2 == cleanupTask(w1, t)
  IN IF w2.sched.running THEN scheduleRun(w2) ELSE w2

\* DownloadJob.checkJobFinished
checkJobFinished_AtLeast(w, j) ==
  IF w.job[j].completed + w.job[j].errors >= Len(JobTasks(j))
    THEN [w EXCEPT !.job[j].emitted = TRUE,
                   !.job[j].times = @ + 1,
                   !.job[j].seen = {w.task[JobTasks(j)[k]].state : k \in DOMAIN JobTasks(j)}]
    ELSE w

checkJobFinished(w, j) ==
  IF w.job[j].completed + w.job[j].errors = Len(JobTasks(j))
    THEN [w EXCEPT !.job[j].emitted = TRUE,
                   !.job[j].times = @ + 1,
                   !.job[j].seen = {w.task[JobTasks(j)[k]].state : k \in DOMAIN JobTasks(j)}]
    ELSE w

\* The listeners DownloadJob puts on each of its tasks in its constructor, so
\* they run before the scheduler's: count the event, then checkJobFinished.
jobOnTaskEvent(w, t, ev) ==
  IF ev \notin {"complete", "error"} \/ ~\E j \in Jobs : Includes(JobTasks(j), t) THEN w
  ELSE LET j == CHOOSE k \in Jobs : Includes(JobTasks(k), t)
       IN checkJobFinished(
            IF ev = "complete" THEN [w EXCEPT !.job[j].completed = @ + 1]
                               ELSE [w EXCEPT !.job[j].errors = @ + 1], j)

\* The `progress` listener DownloadJob puts on each of its tasks: the job
\* totals are updated by the difference to the task's previous report.
jobOnProgress_NoSubtract(w, t, p) ==
  LET j == CHOOSE k \in Jobs : Includes(JobTasks(k), t)
  IN [w EXCEPT !.job[j].jobTotalLoaded = @ + p.loaded,
               !.job[j].jobTotalSize = @ + p.total,
               !.job[j].taskProgress[t] = p]

jobOnProgress(w, t, p) ==
  LET j == CHOOSE k \in Jobs : Includes(JobTasks(k), t)
      oldProg == w.job[j].taskProgress[t]
  IN [w EXCEPT !.job[j].jobTotalLoaded = @ - oldProg.loaded + p.loaded,
               !.job[j].jobTotalSize = @ - oldProg.total + p.total,
               !.job[j].taskProgress[t] = p]

\* emitProgress: the payload of a task's `progress` event.
progressOf(T) == [loaded |-> T.downloadedBytes, total |-> T.totalBytes]

RECURSIVE onFinishTimes(_, _, _)
onFinishTimes(w, t, n) == IF n = 0 THEN w ELSE onFinishTimes(onFinish(w, t), t, n - 1)

\* EventEmitter.emit for the events the queue listens to (complete, error,
\* cancel, pause): every listener set attached when the event is emitted runs
\* its onFinish (emit iterates over a copy of the handler list). A `progress`
\* event carries loaded = downloadedBytes (emitProgress).
emit(w, t, ev) ==
  IF ev \in {"complete", "error", "cancel", "pause"}
    THEN onFinishTimes(jobOnTaskEvent(
           [w EXCEPT !.obs[t].late = @ \/ (ev = "error" /\ w.obs[t].done),
                     !.obs[t].done = @ \/ ev = "complete"], t, ev), t, w.lis[t])
    ELSE IF ev = "progress"
      THEN [jobOnProgress(w, t, progressOf(w.task[t])) EXCEPT
              !.obs[t].loaded = w.task[t].downloadedBytes,
              !.obs[t].total = w.task[t].totalBytes,
              !.obs[t].first = IF @ = "none" THEN "progress" ELSE @,
              !.obs[t].late = @ \/ w.obs[t].done]
      ELSE IF ev = "networkLost" THEN [w EXCEPT !.obs[t].netLost = TRUE]
      ELSE w

\* DownloaderQueue.add
add(w, t) ==
  IF w.task[t].state \in {"completed", "error", "canceled"} THEN w
  ELSE IF Includes(w.sched.queue, t) \/ Includes(w.sched.active, t) THEN w
  ELSE LET w1 == [w EXCEPT !.sched.queue = Append(@, t)]
       IN IF w1.sched.running THEN scheduleRun(w1) ELSE w1

\* DownloaderQueue.start
queueStart(w) ==
  IF w.sched.running THEN w
  ELSE scheduleRun([w EXCEPT !.sched.running = TRUE,
                             !.obs = [t \in Tasks |-> [@[t] EXCEPT !.held = FALSE]]])

\* ------------------------------------------------------------ DownloadTask
handleError_Purging(w, t, kind) ==
  spawn(emit([changeState(w, t, "error") EXCEPT !.obs[t].kind = kind], t, "error"),
        t, Thread("purgeM", "M"))

handleError(w, t, kind) ==
  emit([changeState(w, t, "error") EXCEPT !.obs[t].kind = kind], t, "error")

\* assembleFile up to its await of getChunks.
assembleFile(w, t) == spawn(changeState(w, t, "assembling"), t, Thread("asm_get", "C"))

\* createXHR: this.xhr becomes the new request; it is sent with a Range header
\* when supportsResume, without one for startByte = 0, and not at all otherwise.
createXHR(w, t, startByte, endByte) ==
  LET w1 == xhrNull(w, t)
      x == [Thread("xhr", "N") EXCEPT !.startByte = startByte, !.endByte = endByte, !.cur = TRUE]
  IN IF w.task[t].supportsResume THEN spawn(w1, t, [x EXCEPT !.ranged = TRUE])
     ELSE IF startByte > 0 THEN handleError(w1, t, "Unsupported")
     ELSE spawn(w1, t, x)

downloadNextChunk_OfflineError(w, t) ==
  LET T == w.task[t]
      startByte == T.chunkIndex * T.chunkSize
      e0 == startByte + T.chunkSize - 1
      endByte == IF T.totalBytes > 0 /\ e0 >= T.totalBytes THEN T.totalBytes - 1 ELSE e0
  IN IF T.state # "downloading" THEN w
     ELSE IF ~online THEN handleError(emit(w, t, "networkLost"), t, "Network")
     ELSE IF T.totalBytes > 0 /\ T.downloadedBytes >= T.totalBytes THEN assembleFile(w, t)
     ELSE createXHR(w, t, startByte, endByte)

downloadNextChunk(w, t) ==
  LET T == w.task[t]
      startByte == T.chunkIndex * T.chunkSize
      e0 == startByte + T.chunkSize - 1
      endByte == IF T.totalBytes > 0 /\ e0 >= T.totalBytes THEN T.totalBytes - 1 ELSE e0
  IN IF T.state # "downloading" THEN w
     ELSE IF ~online THEN changeState(emit(w, t, "networkLost"), t, "paused")
     ELSE IF T.totalBytes > 0 /\ T.downloadedBytes >= T.totalBytes THEN assembleFile(w, t)
     ELSE createXHR(w, t, startByte, endByte)

\* The request this.xhr refers to is detached and aborted: if it is still in
\* flight it is gone, if its onload is already running nothing changes but
\* this.xhr.
detachXhr(w, t) ==
  LET s == w.thr[t]
      keep == SelectSeq(s, LAMBDA th : ~(th.cur /\ th.pc = "xhr"))
  IN xhrNull([w EXCEPT !.thr[t] = keep], t)

pause(w, t) ==
  IF w.task[t].state # "downloading" THEN w
  ELSE detachXhr(emit(changeState(w, t, "paused"), t, "pause"), t)

resume(w, t) ==
  IF w.task[t].state # "paused" THEN w
  ELSE downloadNextChunk(emit(changeState(w, t, "downloading"), t, "resume"), t)

\* cancel() up to its await of clearMetadata.
cancel(w, t) ==
  LET w1 == emit(changeState(w, t, "canceled"), t, "cancel")
      w2 == detachXhr(w1, t)
  IN spawn([w2 EXCEPT !.restarted[t] = FALSE, !.calls[t].cancel = @ + 1], t,
           Thread("purgeM", "M"))

\* _handleRetryableError up to its await of the backoff delay.
handleRetryableError_NoRetry(w, t, kind) == handleError(xhrNull(w, t), t, kind)

handleRetryableError_Linear(w, t, kind) ==
  LET w1 == xhrNull(w, t)
      w2 == [w1 EXCEPT !.task[t].retryCount = @ + 1]
      delay == retryDelay * w2.task[t].retryCount
  IN IF w1.task[t].retryCount < maxRetries
       THEN spawn(w2, t, [Thread("backoff", "N") EXCEPT !.delay = delay])
       ELSE handleError(w1, t, kind)

handleRetryableError(w, t, kind) ==
  LET w1 == xhrNull(w, t)
      w2 == [w1 EXCEPT !.task[t].retryCount = @ + 1]
      delay == retryDelay * Pow2(w2.task[t].retryCount - 1)
  IN IF w1.task[t].retryCount < maxRetries
       THEN spawn(w2, t, [Thread("backoff", "N") EXCEPT !.delay = delay])
       ELSE handleError(w1, t, kind)

\* calculateChunkSize
calculateChunkSize_Fixed(totalBytes) == DEFAULT_CHUNK_SIZE

calculateChunkSize(totalBytes) ==
  IF totalBytes <= 0 THEN DEFAULT_CHUNK_SIZE
  ELSE Max(DEFAULT_CHUNK_SIZE, Min(CeilDiv(totalBytes, TARGET_CHUNK_COUNT), MAX_CHUNK_SIZE))

\* The tail of start() after capability discovery.
startDownloading(w, t) ==
  LET w1 == [w EXCEPT !.task[t].chunkSize = calculateChunkSize(w.task[t].totalBytes)]
  IN downloadNextChunk(emit(changeState(w1, t, "downloading"), t, "start"), t)

\* ---------------------------------------- DownloaderQueue.pause and clear
RECURSIVE pauseEach(_, _)
pauseEach(w, s) ==
  IF s = <<>> THEN w
  ELSE LET t == s[Len(s)]
           w1 == pause(w, t)
           w2 == IF Includes(w1.sched.queue, t) THEN w1
                 ELSE [w1 EXCEPT !.sched.queue = <<t>> \o @]
       IN pauseEach(w2, SubSeq(s, 1, Len(s) - 1))

queuePause(w) == pauseEach([w EXCEPT !.sched.running = FALSE], w.sched.active)

RECURSIVE cancelEach(_, _)
cancelEach(w, s) ==
  IF s = <<>> THEN w
  ELSE cancelEach(cancel(cleanupTask(w, Head(s)), Head(s)), Tail(s))

queueClear(w) ==
  cancelEach([w EXCEPT !.sched.queue = <<>>, !.sched.active = <<>>,
                       !.sched.running = FALSE, !.sched.pendingRun = FALSE],
             w.sched.active)

\* ---------------------------------------------------------- DownloadManager
RECURSIVE addIf(_, _, _)
addIf(w, s, states) ==
  IF s = <<>> THEN w
  ELSE addIf(IF w.task[Head(s)].state \in states THEN add(w, Head(s)) ELSE w, Tail(s), states)

startJob(w, j) == queueStart(addIf(w, JobTasks(j), {"idle", "paused"}))

RECURSIVE pauseTasks(_, _)
pauseTasks(w, s) == IF s = <<>> THEN w ELSE pauseTasks(pause(w, Head(s)), Tail(s))

pauseJob(w, j) == pauseTasks(w, JobTasks(j))

resumeJob(w, j) == queueStart(addIf(w, JobTasks(j), {"paused"}))

RECURSIVE cancelTasks(_, _)
cancelTasks(w, s) == IF s = <<>> THEN w ELSE cancelTasks(cancel(w, Head(s)), Tail(s))

cancelJob(w, j) == cancelTasks(w, JobTasks(j))

pauseAll(w) == queuePause(w)
resumeAll(w) == queueStart(w)

\* ------------------------------------------------------------- the server
\* The body a range-honouring server returns for bytes startByte..endByte.
RangeBlob(t, startByte, endByte) ==
  [off |-> startByte, size |-> Min(endByte, size[t] - 1) - startByte + 1]

FullBlob(t) == [off |-> 0, size |-> size[t]]

\* ----------------------------------------------------------- continuations
\* A continuation waiting for a store operation resumes only after the
\* operations issued earlier on the same object store.
Ready(t, i) ==
  /\ i \in DOMAIN thr[t]
  /\ thr[t][i].st # "N" => \A j \in 1..(i - 1) : thr[t][j].st # thr[t][i].st

\* The world with continuation i of task t taken off the pending list.
Taken(t, i) == [World EXCEPT !.thr[t] = RemoveAt(@, i)]

\* start() after `await getMetadata`.
resumeFromMetadata_Refetch(w, t, m) ==
  spawn(changeState(w, t, "fetching_metadata"), t, Thread("head", "N"))

\* start(), the branch taken when the lookup returned a record.
resumeFromMetadata(w, t, m) ==
  LET w1 == [w EXCEPT !.task[t].totalBytes = m.totalBytes,
                      !.task[t].downloadedBytes = m.downloadedBytes,
                      !.task[t].supportsResume = m.supportsResume,
                      !.task[t].chunkSize = m.chunkSize,
                      !.task[t].chunkIndex = m.downloadedBytes \div m.chunkSize]
  IN downloadNextChunk(
       emit(changeState(emit(w1, t, "progress"), t, "downloading"), t, "start"), t)

StartAfterGetMetadata(t, i) ==
  /\ Ready(t, i)
  /\ thr[t][i].pc = "start_meta"
  /\ LET m == getMetadata(meta, t)
         w0 == Taken(t, i)
         w2 == changeState(w0, t, "fetching_metadata")
     IN IF m.has
          THEN Commit(resumeFromMetadata(w0, t, m))
          ELSE IF ~online
                 THEN Commit(startDownloading(w2, t))
                 ELSE Commit(spawn(w2, t, Thread("head", "N")))
  /\ UNCHANGED <<meta, chunks, online, size, budget, honoured, storeOp>>

\* fetchMetadata: the answer to the HEAD request. "ok" is a 2xx answer with
\* Content-Length and Accept-Ranges: bytes; "fail" is another status or a
\* transport error, after which the range probe is sent.
HeadResponse(t, i, r) ==
  /\ Ready(t, i)
  /\ thr[t][i].pc = "head"
  /\ r = "fail" => budget.fails > 0
  /\ budget' = IF r = "fail" THEN [budget EXCEPT !.fails = @ - 1] ELSE budget
  /\ LET w0 == Taken(t, i)
         w1 == [w0 EXCEPT !.task[t].totalBytes = size[t], !.task[t].supportsResume = TRUE]
     IN IF r = "ok"
          THEN Commit(startDownloading(w1, t))
          ELSE Commit(spawn(w0, t, Thread("probe", "N")))
  /\ UNCHANGED <<meta, chunks, online, size, honoured, storeOp>>

\* fetchMetadataProbe: the answer to GET with Range: bytes=0-0. "206" carries
\* Content-Range; "200" and "200AR" ignore the range (the second one still
\* sends Accept-Ranges: bytes); "err" is any other status or a transport error.
\* On status 200 the handler calls xhr.abort() and reads the headers after it:
\* on a platform that keeps the response of an aborted request readable it
\* sees them ("200", "200AR"), on one that clears it every header reads as
\* null whatever was sent ("200gone").
ProbeResponse(t, i, r) ==
  /\ Ready(t, i)
  /\ thr[t][i].pc = "probe"
  /\ r # "206" => budget.fails > 0
  /\ budget' = IF r # "206" THEN [budget EXCEPT !.fails = @ - 1] ELSE budget
  /\ LET w0 == Taken(t, i)
         w1 == [w0 EXCEPT !.task[t].totalBytes = size[t],
                          !.task[t].supportsResume = (r \in {"206", "200AR"})]
         w2 == [w0 EXCEPT !.task[t].supportsResume = FALSE]
     IN CASE r = "err" -> Commit(startDownloading(w0, t))
          [] r = "200gone" -> Commit(startDownloading(w2, t))
          [] OTHER -> Commit(startDownloading(w1, t))
  /\ honoured' = IF r \in {"200", "200AR", "200gone"}
                   THEN [honoured EXCEPT ![t] = FALSE] ELSE honoured
  /\ UNCHANGED <<meta, chunks, online, size, storeOp>>

\* xhr.onprogress: loaded bytes of the body have arrived. The total is known
\* from Content-Range once response headers are in.
XhrProgress(t, i, loaded) ==
  /\ Ready(t, i)
  /\ thr[t][i].pc = "xhr"
  /\ loaded <= (IF thr[t][i].ranged
                  THEN RangeBlob(t, thr[t][i].startByte, thr[t][i].endByte).size
                  ELSE size[t])
  /\ loaded > thr[t][i].got
  /\ LET w0 == [World EXCEPT !.task[t].downloadedBytes = thr[t][i].startByte + loaded,
                             !.thr[t][i].got = loaded]
         w1 == IF w0.task[t].totalBytes = 0 /\ thr[t][i].ranged
                 THEN [w0 EXCEPT !.task[t].totalBytes = size[t]] ELSE w0
     IN Commit(IF w1.task[t].totalBytes > 0 THEN emit(w1, t, "progress") ELSE w1)
  /\ UNCHANGED <<meta, chunks, online, size, budget, honoured, storeOp>>

\* The status of the answer to a chunk request. "ok" is what a server that
\* honours ranges sends: 206 for a range inside the resource, 416 for one
\* beyond its end, 200 for a request without Range.
Status(t, th, r) ==
  CASE r = "ok" -> IF ~th.ranged THEN 200 ELSE IF th.startByte >= size[t] THEN 416 ELSE 206
    [] r = "full" -> 200
    [] r = "5xx" -> 503
    [] r = "4xx" -> 404

\* xhr.onload of createXHR up to its first await.
onload_RetryAll(w, t, th, status) ==
  LET T == w.task[t]
      b206 == RangeBlob(t, th.startByte, th.endByte)
      w206 == IF T.totalBytes = 0 THEN [w EXCEPT !.task[t].totalBytes = size[t]] ELSE w
      w200 == [w EXCEPT !.task[t].supportsResume = FALSE,
                        !.task[t].totalBytes = size[t],
                        !.task[t].downloadedBytes = size[t]]
  IN IF status >= 300 THEN handleRetryableError(w, t, "Http")
     ELSE IF status = 200 /\ th.startByte > 0
       THEN spawn(w200, t, [th EXCEPT !.pc = "clr200", !.st = "C", !.status = 200,
                                      !.blob = FullBlob(t)])
     ELSE IF status = 206
       THEN spawn(w206, t, [th EXCEPT !.pc = "saveChunk", !.st = "C", !.status = 206,
                                      !.index = T.chunkIndex, !.blob = b206])
     ELSE spawn(w200, t, [th EXCEPT !.pc = "saveChunk", !.st = "C", !.status = 200,
                                    !.index = 0, !.blob = FullBlob(t)])

onload(w, t, th, status) ==
  LET T == w.task[t]
      b206 == RangeBlob(t, th.startByte, th.endByte)
      w206 == IF T.totalBytes = 0 THEN [w EXCEPT !.task[t].totalBytes = size[t]] ELSE w
      w200 == [w EXCEPT !.task[t].supportsResume = FALSE,
                        !.task[t].totalBytes = size[t],
                        !.task[t].downloadedBytes = size[t]]
  IN IF status >= 500 THEN handleRetryableError(w, t, "Http")
     ELSE IF status >= 300
       THEN [xhrNull(handleError(w, t, "Http"), t) EXCEPT !.obs[t].errStatus = status]
     ELSE IF status = 200 /\ th.startByte > 0
       THEN spawn(w200, t, [th EXCEPT !.pc = "clr200", !.st = "C", !.status = 200,
                                      !.blob = FullBlob(t)])
     ELSE IF status = 206
       THEN spawn(w206, t, [th EXCEPT !.pc = "saveChunk", !.st = "C", !.status = 206,
                                      !.index = T.chunkIndex, !.blob = b206])
     ELSE spawn(w200, t, [th EXCEPT !.pc = "saveChunk", !.st = "C", !.status = 200,
                                    !.index = 0, !.blob = FullBlob(t)])

\* The end of a chunk request: onload with the status, onerror, or an abort
\* nobody asked for.
XhrResponse(t, i, r) ==
  /\ Ready(t, i)
  /\ thr[t][i].pc = "xhr"
  /\ r # "ok" => budget.fails > 0
  /\ r = "full" => thr[t][i].ranged
  /\ budget' = IF r # "ok" THEN [budget EXCEPT !.fails = @ - 1] ELSE budget
  /\ LET th == thr[t][i]
         w0 == [Taken(t, i) EXCEPT
                  !.obs[t].streak = IF r \in {"neterr", "5xx"} THEN @ + 1
                                    ELSE IF r \in {"ok", "full"} THEN 0 ELSE @,
                  !.obs[t].failStart = IF r \in {"neterr", "5xx"} THEN th.startByte ELSE @]
     IN CASE r = "neterr" -> Commit(handleRetryableError(w0, t, "Network"))
          [] r = "abort" ->
               IF w0.task[t].state \in {"paused", "canceled"}
                 THEN Commit(w0)
                 ELSE Commit(xhrNull(handleError(w0, t, "Network"), t))
          [] OTHER -> Commit(onload(w0, t, th, Status(t, th, r)))
  /\ honoured' = IF r = "full" THEN [honoured EXCEPT ![t] = FALSE] ELSE honoured
  /\ UNCHANGED <<meta, chunks, online, size, storeOp>>

\* onload after `await clearChunks` of the 200-for-a-later-chunk branch.
AfterClearChunks200(t, i) ==
  /\ Ready(t, i)
  /\ thr[t][i].pc = "clr200"
  /\ chunks' = clearChunks(chunks, t)
  /\ LET w0 == Taken(t, i)
     IN Commit(spawn([w0 EXCEPT !.task[t].chunkIndex = 0], t,
                     [thr[t][i] EXCEPT !.pc = "saveChunk", !.index = 0]))
  /\ UNCHANGED <<meta, online, size, budget, honoured, storeOp>>

\* The metadata record onload persists.
MetaOf(T) == [has |-> TRUE, totalBytes |-> T.totalBytes, downloadedBytes |-> T.downloadedBytes,
              supportsResume |-> T.supportsResume, chunkSize |-> T.chunkSize]

\* onload after `await saveChunk`, up to `await saveMetadata`.
afterSaveChunk(w, t, th) ==
  LET w1 == [w EXCEPT !.task[t].retryCount = 0,
                      !.task[t].downloadedBytes =
                         IF th.status = 206 THEN th.startByte + th.blob.size ELSE @]
      w2 == xhrNull(w1, t)
      T == w2.task[t]
  IN spawn(w2, t, [th EXCEPT !.pc = "saveMeta", !.st = "M", !.cur = FALSE, !.rec = MetaOf(T),
                             !.fin = ~(T.totalBytes = 0 \/ T.downloadedBytes < T.totalBytes)])

AfterSaveChunk(t, i) ==
  /\ Ready(t, i)
  /\ thr[t][i].pc = "saveChunk"
  /\ chunks' = saveChunk(chunks, t, thr[t][i].index, thr[t][i].blob)
  /\ Commit(afterSaveChunk(Taken(t, i), t, thr[t][i]))
  /\ UNCHANGED <<meta, online, size, budget, honoured, storeOp>>

\* A store operation a task awaits rejects. The chunk write (and the chunk
\* clear before it) is awaited inside onload's try, whose catch calls
\* handleError and drops this.xhr; the metadata lookup of start() and the
\* metadata persist of onload are awaited outside any try, so their rejection
\* only ends the async function.
storeFailure(w, t, th) ==
  LET w0 == [w EXCEPT !.obs[t].storeFailures = @ + 1]
  IN IF th.pc \in {"saveChunk", "clr200"}
       THEN xhrNull(handleError(w0, t, "Quota"), t)
       ELSE w0

StoreFailure(t, i) ==
  /\ Ready(t, i)
  /\ thr[t][i].pc \in {"start_meta", "clr200", "saveChunk", "saveMeta"}
  /\ budget.fails > 0
  /\ budget' = [budget EXCEPT !.fails = @ - 1]
  /\ Commit(storeFailure(Taken(t, i), t, thr[t][i]))
  /\ UNCHANGED <<meta, chunks, online, size, honoured, storeOp>>

\* onload after `await saveMetadata`.
afterSaveMetadata(w, t, th) ==
  IF th.fin
    THEN assembleFile(w, t)
    ELSE downloadNextChunk([w EXCEPT !.task[t].chunkIndex = @ + 1], t)

AfterSaveMetadata(t, i) ==
  /\ Ready(t, i)
  /\ thr[t][i].pc = "saveMeta"
  /\ meta' = saveMetadata(meta, t, thr[t][i].rec)
  /\ Commit(afterSaveMetadata(Taken(t, i), t, thr[t][i]))
  /\ UNCHANGED <<chunks, online, size, budget, honoured, storeOp>>

\* _handleRetryableError after the backoff delay.
backoffWake_Drop(w, t) == w

backoffWake_Always(w, t) ==
  downloadNextChunk([w EXCEPT !.task[t].state = "downloading"], t)

backoffWake(w, t) ==
  IF w.task[t].state = "downloading" THEN downloadNextChunk(w, t) ELSE w

BackoffWake(t, i) ==
  /\ Ready(t, i)
  /\ thr[t][i].pc = "backoff"
  /\ Commit([backoffWake(Taken(t, i), t) EXCEPT
              !.obs[t].idleWake = @ \/ task[t].state # "downloading"])
  /\ UNCHANGED <<meta, chunks, online, size, budget, honoured, storeOp>>

RECURSIVE BlobsSize(_)
BlobsSize(s) == IF s = <<>> THEN 0 ELSE Head(s).size + BlobsSize(Tail(s))

\* assembleFile after `await getChunks`.
afterGetChunks(w, t, cs) ==
  LET blobs == [i \in DOMAIN cs |-> cs[i].blob]
      purge == Thread("purgeM", "M")
  IN IF Len(cs) = 0 THEN handleError(w, t, "Assembly")
     ELSE IF \E i \in DOMAIN cs : cs[i].index # i - 1
       THEN spawn(handleError(w, t, "Assembly"), t, purge)
     ELSE IF w.task[t].totalBytes > 0 /\ BlobsSize(blobs) # w.task[t].totalBytes
       THEN spawn(handleError(w, t, "Assembly"), t, purge)
     ELSE spawn(emit([changeState(w, t, "completed") EXCEPT
                        !.art[t] = [emitted |-> TRUE, blobs |-> blobs]], t, "complete"),
                t, purge)

AfterGetChunks(t, i) ==
  /\ Ready(t, i)
  /\ thr[t][i].pc = "asm_get"
  /\ Commit(afterGetChunks(Taken(t, i), t, getChunks(chunks, t)))
  /\ UNCHANGED <<meta, chunks, online, size, budget, honoured, storeOp>>

\* cancel() and assembleFile after `await clearMetadata`.
AfterClearMetadata(t, i) ==
  /\ Ready(t, i)
  /\ thr[t][i].pc = "purgeM"
  /\ meta' = clearMetadata(meta, t)
  /\ Commit(spawn(Taken(t, i), t, Thread("purgeC", "C")))
  /\ UNCHANGED <<chunks, online, size, budget, honoured, storeOp>>

\* cancel() and assembleFile after `await clearChunks`.
AfterClearChunks(t, i) ==
  /\ Ready(t, i)
  /\ thr[t][i].pc = "purgeC"
  /\ chunks' = clearChunks(chunks, t)
  /\ Commit(Taken(t, i))
  /\ UNCHANGED <<meta, online, size, budget, honoured, storeOp>>

\* ------------------------------------------------------------ public calls
Spend == budget.ops > 0 /\ budget' = [budget EXCEPT !.ops = @ - 1]

\* The world at a public call on task t, and at a call on the manager or the
\* queue, which may call any task.
Called(t) ==
  [World EXCEPT !.obs[t].done = FALSE, !.obs[t].idleWake = FALSE, !.obs[t].netLost = FALSE]
CalledAny ==
  [World EXCEPT !.obs = [t \in Tasks |-> [@[t] EXCEPT !.done = FALSE, !.idleWake = FALSE,
                                                       !.netLost = FALSE]]]

TaskStart(t) ==
  /\ Spend
  /\ Commit([start(Called(t), t) EXCEPT !.obs[t].held = FALSE])
  /\ UNCHANGED <<meta, chunks, online, size, honoured, storeOp>>

TaskPause(t) ==
  /\ Spend
  /\ task[t].state = "downloading"
  /\ Commit([pause(Called(t), t) EXCEPT !.req[t] = "none"])
  /\ UNCHANGED <<meta, chunks, online, size, honoured, storeOp>>

TaskResume(t) ==
  /\ Spend
  /\ task[t].state = "paused"
  /\ Commit([resume(Called(t), t) EXCEPT !.obs[t].held = FALSE])
  /\ UNCHANGED <<meta, chunks, online, size, honoured, storeOp>>

TaskCancel(t) ==
  /\ Spend
  /\ Commit([cancel(Called(t), t) EXCEPT !.req[t] = "none"])
  /\ UNCHANGED <<meta, chunks, online, size, honoured, storeOp>>

\* The platform's online signal changes.
NetworkChange ==
  /\ Spend
  /\ online' = ~online
  /\ UNCHANGED <<task, thr, meta, chunks, sched, lis, cmap, size, art, restarted, calls, req,
                 job, obs, honoured, storeOp>>

\* ------------------------------------------------- manager and queue calls
InJob(t, j) == Includes(JobTasks(j), t)

StartJob(j) ==
  /\ Spend
  /\ Commit(startJob(CalledAny, j))
  /\ UNCHANGED <<meta, chunks, online, size, honoured, storeOp>>

PauseJob(j) ==
  /\ Spend
  /\ LET w == pauseJob(CalledAny, j)
     IN Commit([w EXCEPT !.req = [t \in Tasks |->
                  IF ~InJob(t, j) THEN w.req[t]
                  ELSE IF task[t].state = "downloading" THEN "pausedJob" ELSE "none"]])
  /\ UNCHANGED <<meta, chunks, online, size, honoured, storeOp>>

ResumeJob(j) ==
  /\ Spend
  /\ LET w == resumeJob(CalledAny, j)
     IN Commit([w EXCEPT !.req = [t \in Tasks |->
                  IF InJob(t, j) /\ req[t] = "pausedJob" /\ task[t].state = "paused"
                    THEN (IF w.task[t].state = "downloading" THEN "none" ELSE "resumeJob")
                    ELSE w.req[t]]])
  /\ UNCHANGED <<meta, chunks, online, size, honoured, storeOp>>

CancelJob(j) ==
  /\ Spend
  /\ LET w == cancelJob(CalledAny, j)
     IN Commit([w EXCEPT !.req = [t \in Tasks |-> IF InJob(t, j) THEN "none" ELSE w.req[t]]])
  /\ UNCHANGED <<meta, chunks, online, size, honoured, storeOp>>

PauseAll ==
  /\ Spend
  /\ LET w == pauseAll(CalledAny)
     IN Commit([w EXCEPT !.req = [t \in Tasks |->
                  IF Includes(sched.active, t) /\ task[t].state = "downloading"
                    THEN "pausedAll" ELSE "none"],
                         !.obs = [t \in Tasks |->
                  [@[t] EXCEPT !.held = @ \/ Includes(sched.active, t)]]])
  /\ UNCHANGED <<meta, chunks, online, size, honoured, storeOp>>

ResumeAll ==
  /\ Spend
  /\ LET w == resumeAll(CalledAny)
     IN Commit([w EXCEPT !.req = [t \in Tasks |->
                  IF req[t] = "pausedAll" /\ task[t].state = "paused"
                    THEN (IF w.task[t].state = "downloading" THEN "none" ELSE "resumeAll")
                    ELSE w.req[t]]])
  /\ UNCHANGED <<meta, chunks, online, size, honoured, storeOp>>

QueueAdd(t) ==
  /\ Spend
  /\ Commit(add(CalledAny, t))
  /\ UNCHANGED <<meta, chunks, online, size, honoured, storeOp>>

QueueClear ==
  /\ Spend
  /\ Commit([queueClear(CalledAny) EXCEPT !.req = [t \in Tasks |-> "none"]])
  /\ UNCHANGED <<meta, chunks, online, size, honoured, storeOp>>

\* --------------------------------------------------------- specifications
InitCommon ==
  /\ task = [t \in Tasks |-> NewTask]
  /\ thr = [t \in Tasks |-> <<>>]
  /\ meta = [t \in Tasks |-> NoMeta]
  /\ chunks = [t \in Tasks |-> {}]
  /\ sched = [queue |-> <<>>, active |-> <<>>, running |-> FALSE, isProcessing |-> FALSE,
              pendingRun |-> FALSE, timers |-> 0, concurrency |-> DefaultConcurrency]
  /\ lis = [t \in Tasks |-> 0]
  /\ cmap = [t \in Tasks |-> FALSE]
  /\ online = TRUE
  /\ art = [t \in Tasks |-> NoArt]
  /\ restarted = [t \in Tasks |-> FALSE]
  /\ calls = [t \in Tasks |-> [start |-> 0, cancel |-> 0]]
  /\ req = [t \in Tasks |-> "none"]
  /\ obs = [t \in Tasks |-> NoObs]
  /\ job = [j \in Jobs |-> NewJob]
  /\ honoured = [t \in Tasks |-> TRUE]
  /\ storeOp = NoStoreOp

\* One task driven through its public operations, without the scheduler. The
\* environment makes MaxOps public calls against a server that never fails,
\* or one call fewer against a server that fails MaxFails times.
InitTask ==
  /\ InitCommon
  /\ size \in {f \in [Tasks -> Sizes] : \A t \in Tasks : t # 1 => f[t] = 7}
  /\ budget \in {[ops |-> MaxOps, fails |-> 0], [ops |-> MaxOps - 1, fails |-> MaxFails]}

NextTask ==
  \/ \E i \in DOMAIN thr[1] : StartAfterGetMetadata(1, i)
  \/ \E i \in DOMAIN thr[1] : \E r \in {"ok", "fail"} : HeadResponse(1, i, r)
  \/ \E i \in DOMAIN thr[1] : \E r \in {"206", "200", "200AR", "200gone", "err"} : ProbeResponse(1, i, r)
  \/ \E i \in DOMAIN thr[1] : \E n \in {1, DEFAULT_CHUNK_SIZE} : XhrProgress(1, i, n)
  \/ \E i \in DOMAIN thr[1] :
       \E r \in {"ok", "full", "5xx", "4xx", "neterr", "abort"} : XhrResponse(1, i, r)
  \/ \E i \in DOMAIN thr[1] : AfterClearChunks200(1, i)
  \/ \E i \in DOMAIN thr[1] : AfterSaveChunk(1, i)
  \/ \E i \in DOMAIN thr[1] : AfterSaveMetadata(1, i)
  \/ \E i \in DOMAIN thr[1] : BackoffWake(1, i)
  \/ \E i \in DOMAIN thr[1] : AfterGetChunks(1, i)
  \/ \E i \in DOMAIN thr[1] : AfterClearMetadata(1, i)
  \/ \E i \in DOMAIN thr[1] : AfterClearChunks(1, i)
  \/ \E i \in DOMAIN thr[1] : StoreFailure(1, i)
  \/ TaskStart(1)
  \/ TaskPause(1)
  \/ TaskResume(1)
  \/ TaskCancel(1)
  \/ NetworkChange

SpecTask == InitTask /\ [][NextTask]_vars

\* The manager and its queue over all the tasks, each a one-chunk resource,
\* with the public task operations called beside them.
InitSched ==
  /\ InitCommon
  /\ size = [t \in Tasks |-> 7]
  /\ budget \in {[ops |-> MaxOps, fails |-> 0], [ops |-> MaxOps - 1, fails |-> MaxFails]}

NextSched ==
  \/ \E t \in Tasks : \E i \in DOMAIN thr[t] : StartAfterGetMetadata(t, i)
  \/ \E t \in Tasks : \E i \in DOMAIN thr[t] : HeadResponse(t, i, "ok")
  \/ \E t \in Tasks : \E i \in DOMAIN thr[t] : XhrResponse(t, i, "ok")
  \/ \E t \in Tasks : \E i \in DOMAIN thr[t] : XhrResponse(t, i, "4xx")
  \/ \E t \in Tasks : \E i \in DOMAIN thr[t] : AfterSaveChunk(t, i)
  \/ \E t \in Tasks : \E i \in DOMAIN thr[t] : AfterSaveMetadata(t, i)
  \/ \E t \in Tasks : \E i \in DOMAIN thr[t] : AfterGetChunks(t, i)
  \/ \E t \in Tasks : \E i \in DOMAIN thr[t] : AfterClearMetadata(t, i)
  \/ \E t \in Tasks : \E i \in DOMAIN thr[t] : AfterClearChunks(t, i)
  \/ \E j \in Jobs : StartJob(j)
  \/ \E j \in Jobs : PauseJob(j)
  \/ \E j \in Jobs : ResumeJob(j)
  \/ \E j \in Jobs : CancelJob(j)
  \/ PauseAll
  \/ ResumeAll
  \/ \E t \in Tasks : QueueAdd(t)
  \/ QueueClear
  \/ \E t \in Tasks : TaskStart(t)
  \/ \E t \in Tasks : TaskPause(t)
  \/ \E t \in Tasks : TaskResume(t)
  \/ \E t \in Tasks : TaskCancel(t)

SpecSched == InitSched /\ [][NextSched]_vars


\* The manager alone, under weak fairness of the continuations: a pending
\* store or network operation eventually completes.
NextMgr ==
  \/ \E t \in Tasks : \E i \in DOMAIN thr[t] : StartAfterGetMetadata(t, i)
  \/ \E t \in Tasks : \E i \in DOMAIN thr[t] : HeadResponse(t, i, "ok")
  \/ \E t \in Tasks : \E i \in DOMAIN thr[t] : XhrResponse(t, i, "ok")
  \/ \E t \in Tasks : \E i \in DOMAIN thr[t] : AfterSaveChunk(t, i)
  \/ \E t \in Tasks : \E i \in DOMAIN thr[t] : AfterSaveMetadata(t, i)
  \/ \E t \in Tasks : \E i \in DOMAIN thr[t] : AfterGetChunks(t, i)
  \/ \E t \in Tasks : \E i \in DOMAIN thr[t] : AfterClearMetadata(t, i)
  \/ \E t \in Tasks : \E i \in DOMAIN thr[t] : AfterClearChunks(t, i)
  \/ \E j \in Jobs : StartJob(j)
  \/ \E j \in Jobs : PauseJob(j)
  \/ \E j \in Jobs : ResumeJob(j)
  \/ PauseAll
  \/ ResumeAll

Internal ==
  \E t \in Tasks : \E i \in DOMAIN thr[t] :
    \/ StartAfterGetMetadata(t, i)
    \/ HeadResponse(t, i, "ok")
    \/ XhrResponse(t, i, "ok")
    \/ AfterSaveChunk(t, i)
    \/ AfterSaveMetadata(t, i)
    \/ AfterGetChunks(t, i)
    \/ AfterClearMetadata(t, i)
    \/ AfterClearChunks(t, i)

InitMgr ==
  /\ InitCommon
  /\ size = [t \in Tasks |-> 7]
  /\ budget = [ops |-> MaxOps, fails |-> 0]

FairMgr == InitMgr /\ [][NextMgr]_vars /\ WF_vars(Internal)

\* The chunk store alone: writes and purges of any url, index and blob.
StoreBlobs == {[off |-> 0, size |-> 1], [off |-> 0, size |-> 2]}

PutChunk(u, i, b) ==
  /\ chunks' = saveChunk(chunks, u, i, b)
  /\ storeOp' = [op |-> "put", url |-> u, index |-> i, blob |-> b,
                 existed |-> \E c \in chunks[u] : c.index = i]
  /\ UNCHANGED <<task, thr, meta, sched, lis, cmap, online, size, budget, art,
                 restarted, calls, req, job, obs, honoured>>

ClearChunks(u) ==
  /\ chunks' = clearChunks(chunks, u)
  /\ storeOp' = [op |-> "clear", url |-> u, index |-> 0, blob |-> NoBlob,
                 existed |-> chunks[u] # {}]
  /\ UNCHANGED <<task, thr, meta, sched, lis, cmap, online, size, budget, art,
                 restarted, calls, req, job, obs, honoured>>

StoreUrls == Tasks \cap (1..MaxUrls)

NextStore ==
  \/ \E u \in StoreUrls : \E i \in 0..MaxIndex : \E b \in StoreBlobs : PutChunk(u, i, b)
  \/ \E u \in StoreUrls : ClearChunks(u)

SpecStore == InitMgr /\ [][NextStore]_vars

\* One task against a server whose answers to chunk requests
\* fail up to MaxRetryFails times; the application may start the task again.
InitRetry ==
  /\ InitCommon
  /\ size \in {f \in [Tasks -> Sizes] : \A t \in Tasks : t # 1 => f[t] = 7}
  /\ budget = [ops |-> MaxOps - 1, fails |-> MaxRetryFails]

\* The application starts a task that is new or has failed and has nothing
\* pending (the `online` listener of main.ts starts the tasks in state error).
RetryStart(t) ==
  /\ task[t].state \in {"idle", "error"}
  /\ thr[t] = <<>>
  /\ TaskStart(t)

NextRetry ==
  \/ \E i \in DOMAIN thr[1] : StartAfterGetMetadata(1, i)
  \/ \E i \in DOMAIN thr[1] : HeadResponse(1, i, "ok")
  \/ \E i \in DOMAIN thr[1] : \E r \in {"ok", "5xx", "neterr"} : XhrResponse(1, i, r)
  \/ \E i \in DOMAIN thr[1] : AfterSaveChunk(1, i)
  \/ \E i \in DOMAIN thr[1] : AfterSaveMetadata(1, i)
  \/ \E i \in DOMAIN thr[1] : BackoffWake(1, i)
  \/ \E i \in DOMAIN thr[1] : AfterGetChunks(1, i)
  \/ \E i \in DOMAIN thr[1] : AfterClearMetadata(1, i)
  \/ \E i \in DOMAIN thr[1] : AfterClearChunks(1, i)
  \/ RetryStart(1)

SpecRetry == InitRetry /\ [][NextRetry]_vars

\* The same, against a server that also answers chunk requests with a 4xx
\* status.
NextStatus ==
  \/ NextRetry
  \/ \E i \in DOMAIN thr[1] : XhrResponse(1, i, "4xx")

SpecStatus == InitRetry /\ [][NextStatus]_vars

\* The jobs run by the manager, with a server that may refuse a request, and
\* an application that starts failed tasks again.
NextJob ==
  \/ \E t \in Tasks : \E i \in DOMAIN thr[t] : StartAfterGetMetadata(t, i)
  \/ \E t \in Tasks : \E i \in DOMAIN thr[t] : HeadResponse(t, i, "ok")
  \/ \E t \in Tasks : \E i \in DOMAIN thr[t] : XhrResponse(t, i, "ok")
  \/ \E t \in Tasks : \E i \in DOMAIN thr[t] : XhrResponse(t, i, "4xx")
  \/ \E t \in Tasks : \E i \in DOMAIN thr[t] : AfterSaveChunk(t, i)
  \/ \E t \in Tasks : \E i \in DOMAIN thr[t] : AfterSaveMetadata(t, i)
  \/ \E t \in Tasks : \E i \in DOMAIN thr[t] : AfterGetChunks(t, i)
  \/ \E t \in Tasks : \E i \in DOMAIN thr[t] : AfterClearMetadata(t, i)
  \/ \E t \in Tasks : \E i \in DOMAIN thr[t] : AfterClearChunks(t, i)
  \/ \E j \in Jobs : StartJob(j)
  \/ \E t \in Tasks : RetryStart(t)

SpecJob == InitSched /\ [][NextJob]_vars

\* The page is loaded again: the objects of the old page and their pending
\* continuations are gone, the chunk store (IndexedDB) is kept, and a new
\* DownloadTask is constructed for the same url.
NewSession(t) ==
  /\ Spend
  /\ task[t].state # "idle"
  /\ task' = [task EXCEPT ![t] = NewTask]
  /\ thr' = [thr EXCEPT ![t] = <<>>]
  /\ obs' = [obs EXCEPT ![t] = NoObs]
  /\ req' = [req EXCEPT ![t] = "none"]
  /\ job' = [j \in Jobs |-> IF InJob(t, j) THEN NewJob ELSE job[j]]
  /\ UNCHANGED <<meta, chunks, sched, lis, cmap, online, size, art, restarted, calls,
                 honoured, storeOp>>

\* One task of a server that supports ranges, started, interrupted by a page
\* load at any point, and started again over the store the old page left.
NextResume ==
  \/ \E i \in DOMAIN thr[1] : StartAfterGetMetadata(1, i)
  \/ \E i \in DOMAIN thr[1] : HeadResponse(1, i, "ok")
  \/ \E i \in DOMAIN thr[1] : \E n \in {1, DEFAULT_CHUNK_SIZE} : XhrProgress(1, i, n)
  \/ \E i \in DOMAIN thr[1] : XhrResponse(1, i, "ok")
  \/ \E i \in DOMAIN thr[1] : AfterSaveChunk(1, i)
  \/ \E i \in DOMAIN thr[1] : AfterSaveMetadata(1, i)
  \/ \E i \in DOMAIN thr[1] : AfterGetChunks(1, i)
  \/ \E i \in DOMAIN thr[1] : AfterClearMetadata(1, i)
  \/ \E i \in DOMAIN thr[1] : AfterClearChunks(1, i)
  \/ RetryStart(1)
  \/ NewSession(1)

SpecResume == InitTask /\ [][NextResume]_vars

\* One task against a server that refuses HEAD and ignores byte ranges: it
\* answers the range probe and every chunk request with status 200 and the
\* whole resource, with or without an Accept-Ranges header.
InitProbe ==
  /\ InitCommon
  /\ size \in {f \in [Tasks -> Sizes] : \A t \in Tasks : t # 1 => f[t] = 7}
  /\ budget = [ops |-> MaxOps, fails |-> MaxRetryFails]

NextProbe ==
  \/ \E i \in DOMAIN thr[1] : StartAfterGetMetadata(1, i)
  \/ \E i \in DOMAIN thr[1] : HeadResponse(1, i, "fail")
  \/ \E i \in DOMAIN thr[1] : \E r \in {"200", "200AR", "200gone"} : ProbeResponse(1, i, r)
  \/ \E i \in DOMAIN thr[1] : ~thr[1][i].ranged /\ XhrResponse(1, i, "ok")
  \/ \E i \in DOMAIN thr[1] : XhrResponse(1, i, "full")
  \/ \E i \in DOMAIN thr[1] : \E n \in {1, DEFAULT_CHUNK_SIZE} : XhrProgress(1, i, n)
  \/ \E i \in DOMAIN thr[1] : AfterSaveChunk(1, i)
  \/ \E i \in DOMAIN thr[1] : AfterSaveMetadata(1, i)
  \/ \E i \in DOMAIN thr[1] : AfterGetChunks(1, i)
  \/ \E i \in DOMAIN thr[1] : AfterClearMetadata(1, i)
  \/ \E i \in DOMAIN thr[1] : AfterClearChunks(1, i)
  \/ RetryStart(1)
  \/ TaskPause(1)
  \/ TaskResume(1)

SpecProbe == InitProbe /\ [][NextProbe]_vars

\* A job of two tasks run by the manager, each task reporting the progress
\* of its requests, with requests that fail and pauses that make a task
\* report less than before.
TwoTaskJob == 1

InitProgress ==
  /\ InitCommon
  /\ size \in {f \in [Tasks -> Sizes] : \A t \in Tasks : ~InJob(t, TwoTaskJob) => f[t] = 7}
  /\ budget = [ops |-> MaxOps, fails |-> MaxFails]

NextProgress ==
  \/ \E t \in Tasks : \E i \in DOMAIN thr[t] : StartAfterGetMetadata(t, i)
  \/ \E t \in Tasks : \E i \in DOMAIN thr[t] : HeadResponse(t, i, "ok")
  \/ \E t \in Tasks : \E i \in DOMAIN thr[t] :
       \E n \in {1, DEFAULT_CHUNK_SIZE} : XhrProgress(t, i, n)
  \/ \E t \in Tasks : \E i \in DOMAIN thr[t] :
       \E r \in {"ok", "neterr"} : XhrResponse(t, i, r)
  \/ \E t \in Tasks : \E i \in DOMAIN thr[t] : AfterSaveChunk(t, i)
  \/ \E t \in Tasks : \E i \in DOMAIN thr[t] : AfterSaveMetadata(t, i)
  \/ \E t \in Tasks : \E i \in DOMAIN thr[t] : BackoffWake(t, i)
  \/ \E t \in Tasks : \E i \in DOMAIN thr[t] : AfterGetChunks(t, i)
  \/ \E t \in Tasks : \E i \in DOMAIN thr[t] : AfterClearMetadata(t, i)
  \/ \E t \in Tasks : \E i \in DOMAIN thr[t] : AfterClearChunks(t, i)
  \/ StartJob(TwoTaskJob)
  \/ PauseJob(TwoTaskJob)
  \/ ResumeJob(TwoTaskJob)

SpecProgress == InitProgress /\ [][NextProgress]_vars

\* The jobs started by the manager and then left alone: the network stays
\* online, the store works, nobody pauses or cancels, and the server answers
\* every request, up to MaxRetryFails of them with a failure. A pending store
\* operation, response or timer eventually happens.
InitRun ==
  /\ InitCommon
  /\ size \in {f \in [Tasks -> Sizes] : \A t \in Tasks : t # 1 => f[t] = 7}
  /\ budget = [ops |-> MaxOps - 1, fails |-> MaxRetryFails]

Answered ==
  \E t \in Tasks : \E i \in DOMAIN thr[t] :
    \/ StartAfterGetMetadata(t, i)
    \/ HeadResponse(t, i, "ok")
    \/ XhrResponse(t, i, "ok")
    \/ AfterSaveChunk(t, i)
    \/ AfterSaveMetadata(t, i)
    \/ BackoffWake(t, i)
    \/ AfterGetChunks(t, i)
    \/ AfterClearMetadata(t, i)
    \/ AfterClearChunks(t, i)

NextRun ==
  \/ Answered
  \/ \E t \in Tasks : \E i \in DOMAIN thr[t] :
       \E r \in {"5xx", "4xx", "neterr"} : XhrResponse(t, i, r)
  \/ \E j \in Jobs : StartJob(j)

\* Weak fairness of Answered, WF_vars(Answered), written out as
\* []<>~ENABLED <<Answered>>_vars \/ []<><<Answered>>_vars with both parts in
\* the terms of this specification: Answered is enabled exactly when a
\* continuation is pending (the first continuation waiting on each store, every
\* request and every timer can be resumed), and its steps are the steps of
\* NextRun that leave the budget of the environment alone.
Pending == \E t \in Tasks : thr[t] # <<>>
AnsweredStep == budget' = budget
AnsweredFairly == []<>(~Pending) \/ []<><<AnsweredStep>>_vars

FairRun == InitRun /\ [][NextRun]_vars /\ AnsweredFairly

\* One task over resources around the sizes where the chunk size leaves its
\* minimum, with a server whose HEAD and range probe may fail, and a page that
\* may be loaded again during the download.
ChunkTotals == {7, TARGET_CHUNK_COUNT * DEFAULT_CHUNK_SIZE,
                TARGET_CHUNK_COUNT * DEFAULT_CHUNK_SIZE + 1,
                (TARGET_CHUNK_COUNT + 10) * DEFAULT_CHUNK_SIZE, MaxTotal}

InitChunk ==
  /\ InitCommon
  /\ size \in {f \in [Tasks -> ChunkTotals] : \A t \in Tasks : t # 1 => f[t] = 7}
  /\ budget \in {[ops |-> MaxOps, fails |-> 0], [ops |-> MaxOps - 1, fails |-> MaxFails + 1]}

NextChunk ==
  \/ \E i \in DOMAIN thr[1] : StartAfterGetMetadata(1, i)
  \/ \E i \in DOMAIN thr[1] : \E r \in {"ok", "fail"} : HeadResponse(1, i, r)
  \/ \E i \in DOMAIN thr[1] : \E r \in {"206", "200", "err"} : ProbeResponse(1, i, r)
  \/ \E i \in DOMAIN thr[1] : XhrResponse(1, i, "ok")
  \/ \E i \in DOMAIN thr[1] : AfterSaveChunk(1, i)
  \/ \E i \in DOMAIN thr[1] : AfterSaveMetadata(1, i)
  \/ \E i \in DOMAIN thr[1] : AfterGetChunks(1, i)
  \/ \E i \in DOMAIN thr[1] : AfterClearMetadata(1, i)
  \/ \E i \in DOMAIN thr[1] : AfterClearChunks(1, i)
  \/ RetryStart(1)
  \/ NewSession(1)

SpecChunk == InitChunk /\ [][NextChunk]_vars

\* The scheduler on a connection that comes and goes: jobs are started through
\* the manager, and every task downloads a file of two chunks.
InitOffline ==
  /\ InitCommon
  /\ size = [t \in Tasks |-> 2 * DEFAULT_CHUNK_SIZE]
  /\ budget = [ops |-> MaxOps, fails |-> 0]

NextOffline ==
  \/ \E t \in Tasks : \E i \in DOMAIN thr[t] : StartAfterGetMetadata(t, i)
  \/ \E t \in Tasks : \E i \in DOMAIN thr[t] : HeadResponse(t, i, "ok")
  \/ \E t \in Tasks : \E i \in DOMAIN thr[t] : XhrResponse(t, i, "ok")
  \/ \E t \in Tasks : \E i \in DOMAIN thr[t] : AfterSaveChunk(t, i)
  \/ \E t \in Tasks : \E i \in DOMAIN thr[t] : AfterSaveMetadata(t, i)
  \/ \E t \in Tasks : \E i \in DOMAIN thr[t] : AfterGetChunks(t, i)
  \/ \E t \in Tasks : \E i \in DOMAIN thr[t] : AfterClearMetadata(t, i)
  \/ \E t \in Tasks : \E i \in DOMAIN thr[t] : AfterClearChunks(t, i)
  \/ \E j \in Jobs : StartJob(j)
  \/ PauseAll
  \/ ResumeAll
  \/ NetworkChange

SpecOffline == InitOffline /\ [][NextOffline]_vars

\* ------------------------------------------------------------------ claims
InFlight(t) == {i \in DOMAIN thr[t] : thr[t][i].pc = "xhr"}
PurgePending(t) == \E i \in DOMAIN thr[t] : thr[t][i].pc \in {"purgeM", "purgeC"}

\* The blobs, laid end to end from byte `from`, are the bytes from..total-1
\* of the resource in order.
RECURSIVE Covers(_, _, _)
Covers(blobs, from, total) ==
  IF blobs = <<>> THEN from = total
  ELSE Head(blobs).off = from /\ Covers(Tail(blobs), from + Head(blobs).size, total)

\* The task was started once and never canceled: what it does is decided by
\* the server's answers, pause() and resume() alone.
StartedOnce(t) == calls[t].start <= 1 /\ calls[t].cancel = 0

\* C1: whenever a task has emitted `complete` for a resource of size S served
\* by a server that honours byte ranges, the artifact is the bytes 0..S-1 of
\* the resource in order (and so has length S), whatever the interleaving of
\* pause(), resume(), backoff wake-ups and response arrivals.
C1_RoundTrip ==
  \A t \in Tasks :
    art[t].emitted /\ honoured[t] /\ StartedOnce(t) =>
      /\ BlobsSize(art[t].blobs) = size[t]
      /\ Covers(art[t].blobs, 0, size[t])

\* C2: once a task is completed or canceled and its purge has finished, the
\* store holds neither a metadata record nor a chunk for its url.
C2_PurgedStore ==
  \A t \in Tasks :
    task[t].state \in {"completed", "canceled"} /\ ~PurgePending(t) /\ calls[t].start <= 1 =>
      ~meta[t].has /\ chunks[t] = {}

\* C5: a task has at most one chunk request in flight, also when pause() and
\* resume() are called during a backoff delay or a chunk write.
C5_OneRequest ==
  \A t \in Tasks : StartedOnce(t) => Cardinality(InFlight(t)) <= 1

\* C6: a task in state canceled leaves that state only after a start() call
\* made after the cancel().
C6_CanceledStays ==
  [][\A t \in Tasks :
       task[t].state = "canceled" /\ task'[t].state # "canceled" => restarted[t]]_vars

\* C7: for any server responses, retries and pause()/resume() calls, a step
\* that commits a chunk with index k leaves the store with exactly one chunk
\* for every index in 0..k of that url.
C7_Density ==
  [][\A t \in Tasks : \A c \in chunks'[t] \ chunks[t] :
       StartedOnce(t) =>
         \A j \in 0..c.index : Cardinality({d \in chunks'[t] : d.index = j}) = 1]_vars


\* C3: in every reachable state of the scheduler the active collection holds
\* at most `concurrency` tasks.
C3_ActiveBound == Len(sched.active) <= sched.concurrency

\* C3 witness: the active collection is full while a task waits in the queue.
C3_ActiveFull == Len(sched.active) = sched.concurrency /\ Len(sched.queue) > 0

\* C4: at any time at most `concurrency` tasks are in a state that transfers
\* (fetching_metadata, downloading or assembling).
Transferring == {t \in Tasks : task[t].state \in {"fetching_metadata", "downloading", "assembling"}}
C4_TransferBound == Cardinality(Transferring) <= sched.concurrency

\* C8: a chunk write leaves exactly one record under (url, index), and a write
\* to a (url, index) that already holds a record changes nothing.
C8_IdempotentPut ==
  [][storeOp'.op = "put" /\ storeOp' # storeOp =>
       LET u == storeOp'.url
           i == storeOp'.index
       IN /\ Cardinality({c \in chunks'[u] : c.index = i}) = 1
          /\ (\E c \in chunks[u] : c.index = i) => chunks' = chunks]_vars

\* C8 witness: a second write with another blob was made and the first blob
\* is the one the store holds.
C8_SecondWriteKept ==
  /\ storeOp.op = "put"
  /\ storeOp.existed
  /\ \E c \in chunks[storeOp.url] : c.index = storeOp.index /\ c.blob # storeOp.blob

\* C9: a task paused by pauseJob and then named by resumeJob eventually
\* returns to `downloading`.
C9_ResumeJobResumes == \A t \in Tasks : (req[t] = "resumeJob") ~> (req[t] # "resumeJob")

\* C10: a task that was downloading when pauseAll was called eventually
\* returns to `downloading` after resumeAll.
C10_ResumeAllResumes == \A t \in Tasks : (req[t] = "resumeAll") ~> (req[t] # "resumeAll")


\* C11: a task that was in the active set when the scheduler was paused
\* neither enters `downloading` nor issues a chunk request until the scheduler
\* (or the task itself) is started again.
C11_PausedStaysQuiet ==
  [][\A t \in Tasks :
       obs[t].held /\ obs'[t].held =>
         /\ task'[t].state = "downloading" => task[t].state = "downloading"
         /\ Cardinality(InFlight(t)) >= Cardinality({i \in DOMAIN thr'[t] : thr'[t][i].pc = "xhr"})]_vars

\* C12: a chunk request that fails with a transport error or a status >= 500
\* is retried while at most maxRetries such failures have followed one another:
\* the task stays out of `error`, emits no `error` event, waits, and then
\* requests the same bytes again; the failure after those sets state `error`.
Backoffs(s) == Cardinality({i \in DOMAIN s : s[i].pc = "backoff"})
C13_JobCompleteWhenAllDone ==
  \A j \in Jobs : job[j].emitted => job[j].seen \subseteq {"completed", "error"}

\* C14: the `loaded` values of the successive `progress` events of a task
\* never decrease.
C14_MonotoneProgress ==
  [][\A t \in Tasks : obs'[t].loaded >= obs[t].loaded]_vars

\* C15: no task has emitted a `progress` event before its first `stateChange`
\* into downloading.
C15_ProgressAfterDownloading == \A t \in Tasks : obs[t].first # "progress"

\* C16: the step in which a store operation of a task fails leaves the task
\* in state error.
C16_StoreFailureIsError ==
  [][\A t \in Tasks : obs'[t].storeFailures > obs[t].storeFailures =>
       task'[t].state = "error"]_vars

\* C17: once a task has failed with an error of kind Assembly and nothing of
\* it is pending any more, the store holds neither its metadata record nor
\* any of its chunks.
C17_AssemblyErrorPurges ==
  \A t \in Tasks :
    task[t].state = "error" /\ obs[t].kind = "Assembly" /\ thr[t] = <<>> =>
      ~meta[t].has /\ chunks[t] = {}

Purges(s) == Cardinality({i \in DOMAIN s : s[i].pc \in {"purgeM", "purgeC"}})

\* C18: the step in which a task enters error for a reason other than
\* Assembly removes neither its metadata record nor any of its chunks, and
\* starts no purge of them. (The store write whose completion resumes the
\* handler that fails is part of the same step, so the record may be the one
\* just written.)
C18_ErrorKeepsStore ==
  [][\A t \in Tasks :
       task[t].state # "error" /\ task'[t].state = "error" /\ obs'[t].kind # "Assembly" =>
         /\ meta[t].has => meta'[t].has
         /\ chunks[t] \subseteq chunks'[t]
         /\ Purges(thr'[t]) <= Purges(thr[t])]_vars

C18_ErrorWithStore ==
  \E t \in Tasks : /\ task[t].state = "error" /\ obs[t].kind \in {"Http", "Network", "Quota"}
                   /\ meta[t].has /\ chunks[t] # {}

Awaiting(s, pcs) == Cardinality({i \in DOMAIN s : s[i].pc \in pcs})

\* C19: the step in which the metadata lookup of start() returns a record
\* sends no HEAD or probe request, leaves the task with the record's
\* totalBytes, downloadedBytes, supportsResume and chunkSize, and, when the
\* task goes on downloading, requests chunk floor(downloadedBytes / chunkSize).
C19_ResumeFromRecord ==
  [][\A t \in Tasks :
       /\ Awaiting(thr'[t], {"start_meta"}) < Awaiting(thr[t], {"start_meta"})
       /\ budget' = budget
       /\ meta[t].has
       => LET m == meta[t]
              k == m.downloadedBytes \div m.chunkSize
          IN /\ Awaiting(thr'[t], {"head", "probe"}) <= Awaiting(thr[t], {"head", "probe"})
             /\ task'[t].totalBytes = m.totalBytes
             /\ task'[t].downloadedBytes = m.downloadedBytes
             /\ task'[t].supportsResume = m.supportsResume
             /\ task'[t].chunkSize = m.chunkSize
             /\ task'[t].chunkIndex = k
             /\ task'[t].state = "downloading" =>
                  \E i \in DOMAIN thr'[t] : /\ thr'[t][i].pc = "xhr" /\ thr'[t][i].cur
                                            /\ thr'[t][i].startByte = k * m.chunkSize]_vars

C19_ResumedMidFile ==
  \E t \in Tasks : /\ obs[t].first = "progress" /\ task[t].state = "downloading"
                   /\ task[t].chunkIndex > 0
                   /\ \E i \in DOMAIN thr[t] : thr[t][i].pc = "xhr" /\ thr[t][i].startByte > 0

\* C20: for a task started once and never canceled, a persisted metadata
\* record never carries more downloadedBytes than its totalBytes (when that
\* is known), and a record that replaces another one of the same url never
\* carries fewer downloadedBytes than it.
C20_PersistedBytesMonotone ==
  [][\A t \in Tasks : StartedOnce(t) =>
       /\ meta'[t].has /\ meta'[t].totalBytes > 0 =>
            meta'[t].downloadedBytes <= meta'[t].totalBytes
       /\ meta[t].has /\ meta'[t].has =>
            meta'[t].downloadedBytes >= meta[t].downloadedBytes]_vars

C22_AddWhenEligible ==
  \A t \in Tasks :
    LET w == add(World, t)
        appended == [World EXCEPT !.sched.queue = Append(@, t)]
    IN IF /\ ~Includes(sched.queue, t) /\ ~Includes(sched.active, t)
          /\ task[t].state \notin {"completed", "canceled"}
         THEN w.sched = (IF sched.running THEN scheduleRun(appended) ELSE appended).sched
         ELSE w.sched.queue = sched.queue /\ w.sched.active = sched.active

RECURSIVE SumLoaded(_)
SumLoaded(s) == IF s = <<>> THEN 0 ELSE obs[Head(s)].loaded + SumLoaded(Tail(s))
RECURSIVE SumTotal(_)
SumTotal(s) == IF s = <<>> THEN 0 ELSE obs[Head(s)].total + SumTotal(Tail(s))

\* C23: the loaded and total a job reports are the sums, over its tasks, of
\* the loaded and total of each task's last `progress` event.
C23_JobTotalsAreSums ==
  \A j \in Jobs : /\ job[j].jobTotalLoaded = SumLoaded(JobTasks(j))
                  /\ job[j].jobTotalSize = SumTotal(JobTasks(j))

C23_BothReported ==
  \E j \in Jobs : /\ Len(JobTasks(j)) > 1
                  /\ \A k \in DOMAIN JobTasks(j) : obs[JobTasks(j)[k]].loaded > 0
                  /\ job[j].jobTotalLoaded > 0

\* C24: a task started once and never canceled that has emitted `complete`
\* emits no `progress`, `stateChange` or `error` event before the next public
\* call on it.
C24_CompleteIsLast == \A t \in Tasks : StartedOnce(t) => ~obs[t].late

\* C25: a task the scheduler has started (it is in the active collection)
\* eventually reaches completed or error.
C25_StartedTaskEnds ==
  \A t \in Tasks :
    Includes(sched.active, t) ~> task[t].state \in {"completed", "error"}

C25_LoopsEnded ==
  /\ task[1].state = "completed" /\ task[1].chunkIndex >= 1 /\ budget.fails < MaxRetryFails
  /\ \E t \in Tasks : task[t].state = "error" /\ task[t].retryCount = maxRetries

\* The chunk size the specification prescribes for a discovered total.
ExpectedChunkSize(total) ==
  IF total = 0 THEN DEFAULT_CHUNK_SIZE
  ELSE LET c == (total \div TARGET_CHUNK_COUNT) + (IF total % TARGET_CHUNK_COUNT = 0 THEN 0 ELSE 1)
       IN IF c < DEFAULT_CHUNK_SIZE THEN DEFAULT_CHUNK_SIZE
          ELSE IF c > MAX_CHUNK_SIZE THEN MAX_CHUNK_SIZE ELSE c

C27_ChunkHoldsItsRange ==
  \A t \in Tasks : honoured[t] =>
    \A c \in chunks[t] :
      /\ c.blob.off = c.index * task[t].chunkSize
      /\ c.blob.off + c.blob.size = Min((c.index + 1) * task[t].chunkSize, size[t])

\* C28: no task is in the scheduler's queue and in its active collection at
\* the same time, and no task appears twice in either of them.
NoRepeat(s) == \A i, k \in DOMAIN s : s[i] = s[k] => i = k

C28_QueueActiveDisjoint ==
  /\ \A t \in Tasks : ~(Includes(sched.queue, t) /\ Includes(sched.active, t))
  /\ NoRepeat(sched.queue)
  /\ NoRepeat(sched.active)

\* C29: every task in the scheduler's active collection is being driven: its
\* state is idle, fetching_metadata, downloading or assembling.
Driven == {"idle", "fetching_metadata", "downloading", "assembling"}

C29_ActiveIsDriven ==
  \A t \in Tasks : Includes(sched.active, t) => task[t].state \in Driven

\* C30: when a backoff delay of a task ends while the task's state is not
\* `downloading`, the wake-up leaves the task as it is, issues no request,
\* starts no store operation and leaves the store unchanged.
C30_IdleWakeDoesNothing ==
  [][\A t \in Tasks :
       /\ Backoffs(thr'[t]) < Backoffs(thr[t])
       /\ budget' = budget
       /\ task[t].state # "downloading"
       => /\ task'[t] = task[t]
          /\ Len(thr'[t]) = Len(thr[t]) - 1
          /\ Awaiting(thr'[t], {"xhr"}) = Awaiting(thr[t], {"xhr"})
          /\ meta' = meta
          /\ chunks' = chunks]_vars

\* A backoff delay has ended on a task that had been paused or canceled.
C30_WokeWhileStopped ==
  \E t \in Tasks :
    /\ obs[t].idleWake
    /\ task[t].state \in {"paused", "canceled"}
    /\ task[t].retryCount > 0

\* C31: while the server has honoured every byte range asked for url t, the
\* metadata record persisted for t never runs ahead of the chunks: every
\* index below floor(downloadedBytes / chunkSize) of the record has a chunk
\* in the store.
C31_RecordBehindChunks ==
  \A t \in Tasks : honoured[t] /\ meta[t].has /\ meta[t].chunkSize > 0 =>
    \A k \in 0..((meta[t].downloadedBytes \div meta[t].chunkSize) - 1) :
      \E c \in chunks[t] : c.index = k

\* C32: retryCount never exceeds maxRetries; the step in which a chunk write
\* of a task completes leaves its retryCount at 0; and so does the step that
\* moves the task on to its next chunk.
C32_RetryCountReset ==
  [][\A t \in Tasks :
       /\ task'[t].retryCount <= maxRetries
       /\ Awaiting(thr'[t], {"saveChunk"}) < Awaiting(thr[t], {"saveChunk"}) /\ budget' = budget
            => task'[t].retryCount = 0
       /\ task'[t].chunkIndex > task[t].chunkIndex /\ budget' = budget
            => task'[t].retryCount = 0]_vars

\* C33: once a task's retryCount is maxRetries, only a completed chunk write
\* changes it (to 0): start() does not. And a chunk request that fails with a
\* transport error or a status >= 500 while retryCount is maxRetries puts the
\* task in `error` at once, with no backoff delay.
C33_StartKeepsRetryCount ==
  [][\A t \in Tasks : task[t].retryCount = maxRetries =>
       /\ task'[t].retryCount # maxRetries =>
            /\ Awaiting(thr'[t], {"saveChunk"}) < Awaiting(thr[t], {"saveChunk"})
            /\ task'[t].retryCount = 0
       /\ obs'[t].streak = obs[t].streak + 1 =>
            /\ task'[t].state = "error"
            /\ Backoffs(thr'[t]) = Backoffs(thr[t])]_vars

\* A task that had exhausted its retries was started again and entered
\* `error` on the first failure of its next chunk request.
C33_ErrorAgainAtOnce ==
  \E t \in Tasks :
    /\ calls[t].start = 2
    /\ task[t].state = "error"
    /\ task[t].retryCount = maxRetries
    /\ obs[t].streak = maxRetries + 2

\* C34: the scheduler holds no listener on a task that is not in its active
\* collection.
C34_NoListenerOffActive ==
  \A t \in Tasks : ~Includes(sched.active, t) => lis[t] = 0

\* C35: whenever no dispatch is executing and none is pending, the scheduler
\* is not running with a task waiting in the queue and a free slot in active.
Quiescent == ~sched.isProcessing /\ ~sched.pendingRun /\ sched.timers = 0

C35_WorkConserving ==
  Quiescent =>
    ~(sched.running /\ Len(sched.queue) > 0 /\ Len(sched.active) < sched.concurrency)

\* The scheduler is running with every slot taken and a task waiting.
C35_TaskWaits ==
  /\ Quiescent
  /\ sched.running
  /\ Len(sched.queue) > 0
  /\ Len(sched.active) = sched.concurrency

\* C36: a job emits `complete` at most once.
C36_JobCompleteOnce == \A j \in Jobs : job[j].times <= 1

\* A job has emitted `complete`, and a task of it that was started again has
\* since ended in error or completed once more.
C36_EndedAgain ==
  \E j \in Jobs :
    /\ job[j].times = 1
    /\ job[j].completed + job[j].errors > Len(JobTasks(j))

\* C37: a chunk-loop iteration of a downloading task while the browser is
\* offline emits `networkLost`, leaves the task `paused` and changes nothing
\* else: no request is issued. And every step in which a task emits
\* `networkLost` leaves it `paused`, with no request added.
C37_OfflineIteration ==
  LET w == [t \in Tasks |-> downloadNextChunk(World, t)]
  IN \A t \in Tasks : ~online /\ task[t].state = "downloading" =>
       /\ w[t].task = [task EXCEPT ![t].state = "paused"]
       /\ w[t].thr = thr
       /\ w[t].obs[t].netLost
       /\ w[t].obs[t].kind = obs[t].kind

C37_OfflinePauses ==
  /\ []C37_OfflineIteration
  /\ [][\A t \in Tasks : obs'[t].netLost /\ ~obs[t].netLost =>
          /\ ~online
          /\ task'[t].state = "paused"
          /\ Awaiting(thr'[t], {"xhr"}) <= Awaiting(thr[t], {"xhr"})]_vars

\* A task was paused by a chunk-loop iteration that found the browser offline
\* after its first chunk had been written.
C37_PausedOffline ==
  \E t \in Tasks :
    /\ obs[t].netLost
    /\ task[t].state = "paused"
    /\ task[t].chunkIndex > 0

\* C38: whatever chunk request is in flight, an answer with a status s,
\* 300 <= s < 500, puts the task in `error` with an Http error carrying s,
\* starts no backoff delay and leaves retryCount as it is; an answer with a
\* status >= 500 is retried while retryCount < maxRetries; a 2xx answer
\* starts no retry.
FinalStatuses == {300, 404, 416, 499}
RetriedStatuses == {500, 503}
GoodStatuses == {200, 206}

C38_ClientErrorIsFinal ==
  \A t \in Tasks : \A i \in DOMAIN thr[t] : thr[t][i].pc = "xhr" =>
    /\ \A s \in FinalStatuses :
         LET w == onload(Taken(t, i), t, thr[t][i], s)
         IN /\ w.task[t] = [task[t] EXCEPT !.state = "error"]
            /\ w.obs[t].kind = "Http"
            /\ w.obs[t].errStatus = s
            /\ Backoffs(w.thr[t]) = Backoffs(thr[t])
            /\ Len(w.thr[t]) = Len(thr[t]) - 1
    /\ \A s \in RetriedStatuses :
         LET w == onload(Taken(t, i), t, thr[t][i], s)
         IN IF task[t].retryCount < maxRetries
              THEN /\ w.task[t] = [task[t] EXCEPT !.retryCount = @ + 1]
                   /\ Backoffs(w.thr[t]) = Backoffs(thr[t]) + 1
              ELSE w.task[t].state = "error"
    /\ \A s \in GoodStatuses :
         LET w == onload(Taken(t, i), t, thr[t][i], s)
         IN /\ Backoffs(w.thr[t]) = Backoffs(thr[t])
            /\ w.task[t].retryCount = task[t].retryCount
            /\ w.task[t].state = task[t].state

\* A chunk request was answered 404 after earlier attempts had been retried:
\* the task is in `error` and its retryCount is what the retries left.
C38_FailedAfterRetries ==
  \E t \in Tasks :
    /\ task[t].state = "error"
    /\ obs[t].kind = "Http"
    /\ obs[t].errStatus = 404
    /\ task[t].retryCount \in 1..(maxRetries - 1)
    /\ obs[t].streak = task[t].retryCount

\* C39: the backoff delay started after the r-th failure in a row of a chunk
\* request, r = 1, 2, 3, lasts 1000 * 2^(r-1) milliseconds: 1000, 2000 and
\* 4000 ms.
ExpectedDelay(r) == CASE r = 1 -> 1000 [] r = 2 -> 2000 [] r = 3 -> 4000 [] OTHER -> 0

C39_BackoffDelays ==
  [][\A t \in Tasks : Backoffs(thr'[t]) > Backoffs(thr[t]) =>
       /\ obs'[t].streak \in 1..maxRetries
       /\ thr'[t][Len(thr'[t])].pc = "backoff"
       /\ thr'[t][Len(thr'[t])].delay = ExpectedDelay(obs'[t].streak)]_vars

\* The third retry in a row of a chunk is waiting for its delay of 4000 ms.
C39_ThirdDelay ==
  \E t \in Tasks : \E i \in DOMAIN thr[t] :
    /\ thr[t][i].pc = "backoff"
    /\ thr[t][i].delay = 4000
    /\ obs[t].streak = 3

\* C40: in every reachable state of the scheduler, pause() leaves running
\* false and the queue equal to the active tasks, in their order, followed by
\* the tasks that were queued, in their order.
C40_PauseRequeues ==
  LET w == queuePause(World)
  IN /\ ~w.sched.running
     /\ w.sched.queue = sched.active \o sched.queue
====
